---- MODULE Spec2Model ----
(***************************************************************************)
(* Model of store/hbase/snapshot.go: the hbaseSnapshot adapter over a      *)
(* themis transaction handle and the hbaseIter adapter over a themis       *)
(* scanner.                                                                *)
(*                                                                         *)
(* Go pointers are modelled as sequences of length at most one: <<>> is    *)
(* nil and <<x>> points to x.  A call that dereferences nil ends with the  *)
(* outcome "panic" and changes nothing.                                    *)
(*                                                                         *)
(* The transactional engine (go-themis / go-hbase) is the environment: it  *)
(* holds a table of timestamped versions of the fixed column, answers a    *)
(* request with the newest version inside the requested time range, and    *)
(* may fail any request.                                                   *)
(***************************************************************************)
EXTENDS Integers, Sequences, FiniteSets, TLC

VARIABLES store, txn, handle, last, it, scanner

vars == <<store, txn, handle, last, it, scanner>>

(* ------------------------------ bounds --------------------------------- *)

\* Keys are 1..MaxKey; the integer order stands for the byte order of keys.
MaxKey == 2

\* Versions are unsigned integers of a small width: 0..MaxVer, and Ver + 1
\* wraps to 0 at MaxVer as uint64 does at 2^64 - 1.
MaxVer == 3

\* Number of (key, timestamp) writes committed before the snapshot was taken.
MaxWrites == 2

\* hbaseBatchSize is used for go-themis Scanner.
hbaseBatchSize == 1000

Keys == 1..MaxKey
Vers == 0..MaxVer
Timestamps == 1..MaxVer
VerModulus == MaxVer + 1
Limits == (0 - 1)..MaxKey
MaxNexts == MaxKey

(* ------------------------------ values --------------------------------- *)

Nil == <<>>

\* The fixed column "family:qualifier" every request selects.
hbaseFmlAndQual == "f:q"

\* The bytes written to key k at timestamp ts.
ValueOf(k, ts) == <<k, ts>>

NoColumns == [c \in {} |-> [Value |-> Nil]]

\* hbase.ResultRow: the row key and the map from column to *Kv.
ResultRow(k, ts) == [Row |-> k, Columns |-> (hbaseFmlAndQual :> [Value |-> ValueOf(k, ts)])]

EmptyResultRow == [Row |-> 0, Columns |-> NoColumns]

SetMax(S) == CHOOSE x \in S : \A y \in S : y <= x

\* len(r.Columns)
LenColumns(r) == Cardinality(DOMAIN r.Columns)

\* r.Columns[hbaseFmlAndQual].Value: the map yields a nil *Kv for a column
\* that is not there, and reading its Value panics.
ColumnValue(r) ==
    IF hbaseFmlAndQual \in DOMAIN r.Columns
    THEN [v |-> r.Columns[hbaseFmlAndQual].Value, err |-> "nil"]
    ELSE [v |-> Nil, err |-> "panic"]

(* ------------------------------ engine --------------------------------- *)

\* hbase.NewGet(k) with AddColumn: the time range fields start at zero.
NewGet(k) == [Row |-> k, TsRangeFrom |-> 0, TsRangeTo |-> 0]

\* The timestamps of key k inside the half-open range [from, to).  A request
\* whose range fields are both zero carries no range (this is what Get sends).
InRange(k, from, to) ==
    IF from = 0 /\ to = 0
    THEN store[k]
    ELSE {ts \in store[k] : from <= ts /\ ts < to}

\* The rows the engine may answer a single-row request with: the newest
\* version in range, or, for a row with none, no row or a row without columns.
EngineRows(k, from, to) ==
    IF InRange(k, from, to) = {}
    THEN {Nil, <<EmptyResultRow>>}
    ELSE {<<ResultRow(k, SetMax(InRange(k, from, to)))>>}

\* txn.Get(storeName, g): a row, or a failure of the engine.
TxnGet(g) ==
    {[r |-> r, err |-> "nil"] : r \in EngineRows(g.Row, g.TsRangeFrom, g.TsRangeTo)}
        \cup {[r |-> Nil, err |-> "EngineError"]}

\* A read issued through the handle: it is stale when the handle has been
\* released before.
HandleRead(h) == [h EXCEPT !.staleReads = h.staleReads \/ (h.released > 0)]

\* txn.Release()
HandleRelease(h) == [h EXCEPT !.released = h.released + 1]

(* ------------------------------ Get / MvccGet -------------------------- *)

\* An internalGet that tests only r == nil.
internalGetNilOnly(resp) ==
    IF resp.err # "nil"
    THEN [v |-> Nil, err |-> resp.err]
    ELSE IF resp.r = Nil
         THEN [v |-> Nil, err |-> "ErrNotExist"]
         ELSE ColumnValue(resp.r[1])

\* internalGet after the engine answered resp.
internalGet(resp) ==
    IF resp.err # "nil"
    THEN [v |-> Nil, err |-> resp.err]
    ELSE IF resp.r = Nil \/ LenColumns(resp.r[1]) = 0
         THEN [v |-> Nil, err |-> "ErrNotExist"]
         ELSE ColumnValue(resp.r[1])

\* An MvccGet request whose upper bound is ver.Ver itself.
MvccGetRequestVer(k, ver) ==
    [NewGet(k) EXCEPT !.TsRangeFrom = 0, !.TsRangeTo = ver]

\* The request MvccGet builds: g.TsRangeFrom = 0, g.TsRangeTo = ver.Ver + 1.
MvccGetRequest(k, ver) ==
    [NewGet(k) EXCEPT !.TsRangeFrom = 0, !.TsRangeTo = (ver + 1) % VerModulus]

\* One single-row read through s.txn.
PointRead(op, k, ver, g) ==
    IF txn = Nil
    THEN /\ last' = [op |-> op, key |-> k, ver |-> ver, g |-> g, issued |-> 0,
                     resp |-> [r |-> Nil, err |-> "nil"], v |-> Nil, err |-> "panic"]
         /\ UNCHANGED <<store, txn, handle, it, scanner>>
    ELSE \E resp \in TxnGet(g) :
            /\ handle' = HandleRead(handle)
            /\ last' = [op |-> op, key |-> k, ver |-> ver, g |-> g, issued |-> 1,
                        resp |-> resp, v |-> internalGet(resp).v,
                        err |-> internalGet(resp).err]
            /\ UNCHANGED <<store, txn, it, scanner>>

Get(k) == PointRead("Get", k, 0, NewGet(k))

MvccGet(k, ver) == PointRead("MvccGet", k, ver, MvccGetRequest(k, ver))

(* ------------------------------ BatchGet ------------------------------- *)

EmptyMap == [k \in {} |-> Nil]

\* m[k] = v
MapPut(m, k, v) == [x \in (DOMAIN m) \cup {k} |-> IF x = k THEN v ELSE m[x]]

\* The rows the engine answers a multi-row request with, in key order: a
\* requested key with no version is left out (mode "omit") or answered with
\* a row without columns (mode "empty").
RECURSIVE BatchRows(_, _, _)
BatchRows(ks, mode, k) ==
    IF k > MaxKey
    THEN <<>>
    ELSE (IF k \notin ks
          THEN <<>>
          ELSE IF store[k] # {}
               THEN <<ResultRow(k, SetMax(store[k]))>>
               ELSE IF mode = "empty" THEN <<EmptyResultRow>> ELSE <<>>)
         \o BatchRows(ks, mode, k + 1)

\* txn.BatchGet(storeName, gets): the rows, or a failure of the engine.
TxnBatchGet(ks) ==
    {[rows |-> BatchRows(ks, mode, 1), err |-> "nil"] : mode \in {"omit", "empty"}}
        \cup {[rows |-> <<>>, err |-> "EngineError"]}

\* for _, r := range rows { m[string(r.Row)] = r.Columns[hbaseFmlAndQual].Value }
RECURSIVE BatchGetLoop(_, _, _)
BatchGetLoop(rows, i, m) ==
    IF i > Len(rows)
    THEN [m |-> m, err |-> "nil"]
    ELSE IF ColumnValue(rows[i]).err = "panic"
         THEN [m |-> EmptyMap, err |-> "panic"]
         ELSE BatchGetLoop(rows, i + 1, MapPut(m, rows[i].Row, ColumnValue(rows[i]).v))

\* BatchGet after the engine answered resp.
BatchGetResult(resp) ==
    IF resp.err # "nil"
    THEN [m |-> EmptyMap, err |-> resp.err]
    ELSE BatchGetLoop(resp.rows, 1, EmptyMap)

BatchGet(ks) ==
    IF txn = Nil
    THEN /\ last' = [op |-> "BatchGet", keys |-> ks, issued |-> 0,
                     resp |-> [rows |-> <<>>, err |-> "nil"], m |-> EmptyMap,
                     err |-> "panic"]
         /\ UNCHANGED <<store, txn, handle, it, scanner>>
    ELSE \E resp \in TxnBatchGet(ks) :
            /\ handle' = HandleRead(handle)
            /\ last' = [op |-> "BatchGet", keys |-> ks, issued |-> 1, resp |-> resp,
                        m |-> BatchGetResult(resp).m, err |-> BatchGetResult(resp).err]
            /\ UNCHANGED <<store, txn, it, scanner>>

(* ------------------------------ scanner -------------------------------- *)

\* txn.GetScanner(table, start, end, batchSize): a cursor over the keys from
\* start up to, and not including, end (a nil end leaves the range open).
GetScanner(start, end, batchSize) ==
    [start |-> start, end |-> end, batch |-> batchSize, from |-> 0, to |-> 0,
     pos |-> 0, calls |-> 0, failed |-> FALSE, closed |-> FALSE, closes |-> 0]

\* scanner.SetTimeRange(from, to)
SetTimeRange(sc, from, to) == [sc EXCEPT !.from = from, !.to = to]

\* The keys the cursor delivers, in increasing order.
ScanKeys(sc) ==
    {k \in Keys : /\ sc.start <= k
                  /\ (sc.end = Nil \/ k < sc.end[1])
                  /\ InRange(k, sc.from, sc.to) # {}}

NthKey(S, n) == CHOOSE k \in S : Cardinality({j \in S : j < k}) = n - 1

\* scanner.Next(): the next row, or nil at the end of the data, on a closed
\* cursor, and when the fetch fails (fail): the cursor reports no error.
ScannerNext(sc, fail) ==
    LET called == [sc EXCEPT !.calls = @ + 1]
        k == NthKey(ScanKeys(sc), sc.pos + 1)
    IN  IF sc.closed \/ sc.failed
        THEN [sc |-> called, r |-> Nil]
        ELSE IF fail
             THEN [sc |-> [called EXCEPT !.failed = TRUE], r |-> Nil]
             ELSE IF sc.pos >= Cardinality(ScanKeys(sc))
                  THEN [sc |-> called, r |-> Nil]
                  ELSE [sc |-> [called EXCEPT !.pos = @ + 1],
                        r |-> <<ResultRow(k, SetMax(InRange(k, sc.from, sc.to)))>>]

\* scanner.Close()
ScannerClose(sc) == [sc EXCEPT !.closed = TRUE, !.closes = @ + 1]

\* scanner.Closed()
ScannerClosed(sc) == sc.closed

(* ------------------------------ RangeGet ------------------------------- *)

\* for i := 0; i < limit; i++ { r := scanner.Next(); ... } : the fetch
\* numbered failAt fails in the engine (0: none does).
RECURSIVE RangeGetLoop(_, _, _, _, _)
RangeGetLoop(sc, m, i, limit, failAt) ==
    IF i >= limit
    THEN [sc |-> sc, m |-> m, exit |-> "limit"]
    ELSE LET nx == ScannerNext(sc, i + 1 = failAt)
         IN  IF nx.r # Nil /\ LenColumns(nx.r[1]) > 0
             THEN IF ColumnValue(nx.r[1]).err = "panic"
                  THEN [sc |-> nx.sc, m |-> m, exit |-> "panic"]
                  ELSE RangeGetLoop(nx.sc, MapPut(m, nx.r[1].Row, ColumnValue(nx.r[1]).v),
                                    i + 1, limit, failAt)
             ELSE [sc |-> nx.sc, m |-> m, exit |-> "break"]

\* A Close that is called at the end of the loop only, and not on the break.
CloseAtLimitOnly(sc, exit) == IF exit = "limit" THEN ScannerClose(sc) ELSE sc

\* defer scanner.Close(): runs on every way out of RangeGet.
DeferredClose(sc, exit) == ScannerClose(sc)

\* RangeGet once the cursor is open.
RangeGetResult(start, end, limit, failAt) ==
    LET res == RangeGetLoop(GetScanner(start, <<end>>, limit), EmptyMap, 0, limit, failAt)
    IN  [m |-> res.m, exit |-> res.exit, sc |-> DeferredClose(res.sc, res.exit),
         err |-> IF res.exit = "panic" THEN "panic" ELSE "nil"]

RangeGet(start, end, limit, failAt) ==
    IF txn = Nil
    THEN /\ last' = [op |-> "RangeGet", start |-> start, end |-> end, limit |-> limit,
                     issued |-> 0, m |-> EmptyMap, exit |-> "panic", sc |-> Nil,
                     err |-> "panic"]
         /\ UNCHANGED <<store, txn, handle, it, scanner>>
    ELSE LET res == RangeGetResult(start, end, limit, failAt)
         IN  /\ handle' = HandleRead(handle)
             /\ last' = [op |-> "RangeGet", start |-> start, end |-> end, limit |-> limit,
                         issued |-> 1, m |-> res.m, exit |-> res.exit, sc |-> <<res.sc>>,
                         err |-> res.err]
             /\ UNCHANGED <<store, txn, it, scanner>>

(* ------------------------------ iterator ------------------------------- *)

\* it.rs = it.ThemisScanner.Next(); return nil.  On a nil ThemisScanner the
\* call panics before it.rs is assigned.
hbaseIterNext(i, sc, fail) ==
    IF i.ThemisScanner = Nil
    THEN [it |-> i, sc |-> sc, err |-> "panic"]
    ELSE LET nx == ScannerNext(sc, fail)
         IN  [it |-> [i EXCEPT !.rs = nx.r], sc |-> nx.sc, err |-> "nil"]

\* A constructor that returns the iterator without advancing it.
newInnerScannerNoNext(sc, fail) ==
    [it |-> [ThemisScanner |-> <<"scanner">>, rs |-> Nil, nexts |-> 0], sc |-> sc,
     err |-> "nil"]

\* it := &hbaseIter{ThemisScanner: scanner}; it.Next(); return it
newInnerScanner(sc, fail) ==
    hbaseIterNext([ThemisScanner |-> <<"scanner">>, rs |-> Nil, nexts |-> 0], sc, fail)

\* hbaseIter.Valid()
Valid(i, sc) ==
    IF i.rs = Nil \/ LenColumns(i.rs[1]) = 0
    THEN "false"
    ELSE IF i.ThemisScanner = Nil
         THEN "panic"
         ELSE IF ScannerClosed(sc) THEN "false" ELSE "true"

\* hbaseIter.Key(): string(it.rs.Row)
Key(i) == IF i.rs = Nil THEN [k |-> 0, err |-> "panic"] ELSE [k |-> i.rs[1].Row, err |-> "nil"]

\* hbaseIter.Value(): it.rs.Columns[hbaseFmlAndQual].Value
Value(i) == IF i.rs = Nil THEN [v |-> Nil, err |-> "panic"] ELSE ColumnValue(i.rs[1])

\* A Close that leaves it.ThemisScanner pointing at the closed cursor.
hbaseIterCloseKeepsScanner(i, sc) ==
    IF i.ThemisScanner # Nil
    THEN [it |-> [i EXCEPT !.rs = Nil], sc |-> ScannerClose(sc)]
    ELSE [it |-> [i EXCEPT !.rs = Nil], sc |-> sc]

\* hbaseIter.Close()
hbaseIterClose(i, sc) ==
    IF i.ThemisScanner # Nil
    THEN [it |-> [i EXCEPT !.ThemisScanner = Nil, !.rs = Nil], sc |-> ScannerClose(sc)]
    ELSE [it |-> [i EXCEPT !.rs = Nil], sc |-> sc]

\* The caller holds one iterator at a time: a new one is asked for when none
\* was made yet or the one held was closed.
NoIterator == IF it = Nil THEN TRUE ELSE it[1].ThemisScanner = Nil

\* An iterator over the cursor sc0, returned to the caller.
OpenIterator(op, sc0, fail) ==
    LET made == newInnerScanner(sc0, fail)
    IN  /\ handle' = HandleRead(handle)
        /\ it' = <<made.it>>
        /\ scanner' = <<made.sc>>
        /\ last' = [op |-> op, ret |-> "iterator", issued |-> 1, err |-> "nil"]
        /\ UNCHANGED <<store, txn>>

IteratorPanic(op) ==
    /\ last' = [op |-> op, ret |-> "none", issued |-> 0, err |-> "panic"]
    /\ UNCHANGED <<store, txn, handle, it, scanner>>

\* param is the untyped parameter: its dynamic type is []byte (isBytes) or not.
NewIterator(param, fail) ==
    /\ NoIterator
    /\ IF ~param.isBytes
       THEN /\ last' = [op |-> "NewIterator", ret |-> "nil", issued |-> 0, err |-> "nil"]
            /\ UNCHANGED <<store, txn, handle, it, scanner>>
       ELSE IF txn = Nil
            THEN IteratorPanic("NewIterator")
            ELSE OpenIterator("NewIterator", GetScanner(param.k, Nil, hbaseBatchSize), fail)

NewMvccIterator(k, ver, fail) ==
    /\ NoIterator
    /\ IF txn = Nil
       THEN IteratorPanic("NewMvccIterator")
       ELSE OpenIterator("NewMvccIterator",
                         SetTimeRange(GetScanner(k, Nil, hbaseBatchSize), 0,
                                      (ver + 1) % VerModulus),
                         fail)

IterNext(fail) ==
    /\ it # Nil
    /\ it[1].nexts < MaxNexts
    /\ LET nx == hbaseIterNext(it[1], scanner[1], fail)
       IN  IF nx.err = "panic"
           THEN /\ last' = [op |-> "Next", err |-> "panic"]
                /\ UNCHANGED <<store, txn, handle, it, scanner>>
           ELSE /\ it' = <<[nx.it EXCEPT !.nexts = @ + 1]>>
                /\ scanner' = <<nx.sc>>
                /\ last' = [op |-> "Next", err |-> "nil"]
                /\ UNCHANGED <<store, txn, handle>>

IterClose ==
    /\ it # Nil
    /\ LET cl == hbaseIterClose(it[1], scanner[1])
       IN  /\ it' = <<cl.it>>
           /\ scanner' = <<cl.sc>>
           /\ last' = [op |-> "Close", held |-> (it[1].ThemisScanner # Nil), err |-> "nil"]
           /\ UNCHANGED <<store, txn, handle>>

(* ------------------------------ Release -------------------------------- *)


\* A Release that calls txn.Release() without looking at s.txn first.
ReleaseUnguarded(op) ==
    /\ handle' = HandleRelease(handle)
    /\ txn' = Nil
    /\ last' = [op |-> op, held |-> (txn # Nil), err |-> "nil"]
    /\ UNCHANGED <<store, it, scanner>>

\* A Release that leaves s.txn pointing at the released handle.
ReleaseKeepsHandle(op) ==
    /\ handle' = HandleRelease(handle)
    /\ last' = [op |-> op, held |-> (txn # Nil), err |-> "nil"]
    /\ UNCHANGED <<store, txn, it, scanner>>

\* if s.txn != nil { s.txn.Release(); s.txn = nil }
hbaseSnapshotRelease(op) ==
    /\ IF txn # Nil
       THEN /\ handle' = HandleRelease(handle)
            /\ txn' = Nil
       ELSE UNCHANGED <<txn, handle>>
    /\ last' = [op |-> op, held |-> (txn # Nil), err |-> "nil"]
    /\ UNCHANGED <<store, it, scanner>>

Release == hbaseSnapshotRelease("Release")

\* MvccRelease calls s.Release().
MvccRelease == hbaseSnapshotRelease("MvccRelease")

(* ------------------------------ Init ----------------------------------- *)

Writes(st) == {<<k, ts>> \in Keys \X Timestamps : ts \in st[k]}

Stores == {st \in [Keys -> SUBSET Timestamps] : Cardinality(Writes(st)) <= MaxWrites}

Init ==
    /\ store \in Stores
    /\ txn = <<"txn">>
    /\ handle = [released |-> 0, staleReads |-> FALSE]
    /\ last = [op |-> "new", err |-> "nil"]
    /\ it = Nil
    /\ scanner = Nil

Params == [isBytes : {TRUE}, k : Keys] \cup {[isBytes |-> FALSE, k |-> 0]}

FailPoints(limit) == 0..(IF limit > 0 THEN limit ELSE 0)

NextRead ==
    \/ \E k \in Keys : Get(k)
    \/ \E k \in Keys, ver \in Vers : MvccGet(k, ver)
    \/ \E ks \in SUBSET Keys : BatchGet(ks)
    \/ \E start \in Keys, limit \in Limits :
          \E end \in start..MaxKey, failAt \in FailPoints(limit) :
             RangeGet(start, end, limit, failAt)
    \/ Release
    \/ MvccRelease

SpecRead == Init /\ [][NextRead]_vars

NextIter ==
    \/ \E param \in Params, fail \in BOOLEAN : NewIterator(param, fail)
    \/ \E k \in Keys, ver \in Vers, fail \in BOOLEAN : NewMvccIterator(k, ver, fail)
    \/ \E fail \in BOOLEAN : IterNext(fail)
    \/ IterClose
    \/ Release
    \/ MvccRelease

SpecIter == Init /\ [][NextIter]_vars

\* The methods of the snapshot: the reads, the iterator constructors and the
\* releases.
NextSnap ==
    \/ \E k \in Keys : Get(k)
    \/ \E k \in Keys, ver \in Vers : MvccGet(k, ver)
    \/ \E ks \in SUBSET Keys : BatchGet(ks)
    \/ \E start \in Keys, limit \in Limits :
          \E end \in start..MaxKey, failAt \in FailPoints(limit) :
             RangeGet(start, end, limit, failAt)
    \/ \E param \in Params, fail \in BOOLEAN : NewIterator(param, fail)
    \/ \E k \in Keys, ver \in Vers, fail \in BOOLEAN : NewMvccIterator(k, ver, fail)
    \/ Release
    \/ MvccRelease

\* The life cycle of the handle does not depend on what the table holds: all
\* eight methods are put together over the tables with at most one write.
InitSnap ==
    /\ Init
    /\ Cardinality(Writes(store)) <= 1

SpecSnap == InitSnap /\ [][NextSnap]_vars

Next ==
    \/ NextSnap
    \/ \E fail \in BOOLEAN : IterNext(fail)
    \/ IterClose

Spec == Init /\ [][Next]_vars

(* ------------------------------ properties ----------------------------- *)

SnapshotReads == {"Get", "MvccGet", "BatchGet", "RangeGet", "NewIterator", "NewMvccIterator"}

\* C1: over any sequence of Release() and MvccRelease() calls the handle is
\* released exactly once: the first call releases it and clears s.txn, every
\* later call changes nothing, and no call fails or panics.
ReleasedExactlyOnce ==
    /\ handle.released <= 1
    /\ (txn = Nil) <=> (handle.released = 1)
    /\ last.op \in {"Release", "MvccRelease"}
          => /\ last.err = "nil"
             /\ txn = Nil
             /\ handle.released = 1

\* A Release call that found the snapshot already released.
SecondReleaseWitness ==
    /\ last.op = "MvccRelease"
    /\ ~last.held
    /\ handle.released = 1

\* C2: once the snapshot is released no method of it issues a read through
\* the released handle: a request reaches the engine only while s.txn is an
\* unreleased handle.
NoReadAfterRelease ==
    /\ ~handle.staleReads
    /\ (last.op \in SnapshotReads /\ last.issued = 1)
          => (txn # Nil /\ handle.released = 0)
    /\ (last.op \in SnapshotReads /\ txn = Nil) => last.issued = 0

\* A read was asked of a released snapshot and no request was issued.
ReadAfterReleaseWitness ==
    /\ txn = Nil
    /\ handle.released = 1
    /\ last.op = "BatchGet"
    /\ last.issued = 0

\* The engine's answer r has a value in the fixed column.
HasFixedColumn(r) == IF r = Nil THEN FALSE ELSE hbaseFmlAndQual \in DOMAIN r[1].Columns

\* C3: Get and MvccGet return NotFound exactly when the engine answers with no
\* row or with a row that has no value in the fixed column (so for every key
\* never written); in every other case without an engine failure they return
\* the bytes of the fixed column and no error.
NotFoundExactly ==
    (last.op \in {"Get", "MvccGet"} /\ last.issued = 1)
        => /\ (last.err = "ErrNotExist")
                <=> (last.resp.err = "nil" /\ ~HasFixedColumn(last.resp.r))
           /\ (last.resp.err = "nil" /\ HasFixedColumn(last.resp.r))
                => /\ last.err = "nil"
                   /\ last.v = last.resp.r[1].Columns[hbaseFmlAndQual].Value
           /\ (last.resp.err = "nil" /\ store[last.key] = {})
                => last.err = "ErrNotExist"

\* MvccGet of a key never written, answered with a row without columns.
NotFoundWitness ==
    /\ last.op = "MvccGet"
    /\ last.issued = 1
    /\ store[last.key] = {}
    /\ last.resp.r = <<EmptyResultRow>>
    /\ last.err = "ErrNotExist"

\* C4: BatchGet returns, without error, the mapping from exactly the requested
\* keys that have a value in the fixed column to their values; a requested key
\* with no row, or with a row lacking the fixed column, is left out and causes
\* no error and no crash.
BatchGetOmitsMissing ==
    (last.op = "BatchGet" /\ last.issued = 1 /\ last.resp.err = "nil")
        => /\ last.err = "nil"
           /\ DOMAIN last.m = {k \in last.keys : store[k] # {}}
           /\ \A k \in DOMAIN last.m : last.m[k] = ValueOf(k, SetMax(store[k]))

\* The timestamps of key k that are at most ver.
UpTo(k, ver) == {ts \in store[k] : ts <= ver}

\* C5: MvccGet(key, version) returns the value of the newest write of the key
\* at a timestamp <= version.Ver, and NotFound when there is none: for a key
\* written at v1 and again at v2 > v1 that is the v1 value on [v1, v2), the v2
\* value from v2 up to the largest Ver, NotFound below v1.  The request carries
\* the range from 0 to Ver + 1.
MvccGetNewestUpTo ==
    (last.op = "MvccGet" /\ last.issued = 1 /\ last.resp.err = "nil")
        => /\ last.g.TsRangeFrom = 0
           /\ last.g.TsRangeTo = (last.ver + 1) % VerModulus
           /\ IF UpTo(last.key, last.ver) = {}
              THEN last.err = "ErrNotExist"
              ELSE /\ last.err = "nil"
                   /\ last.v = ValueOf(last.key, SetMax(UpTo(last.key, last.ver)))

\* A key written twice, read at the largest Ver: the second value comes back.
MvccGetWitness ==
    /\ last.op = "MvccGet"
    /\ last.ver = MaxVer
    /\ Cardinality(store[last.key]) = 2
    /\ last.err = "nil"
    /\ last.v = ValueOf(last.key, SetMax(store[last.key]))

\* The last call was a RangeGet that met no failure of the engine.
RangeGetServed ==
    IF last.op = "RangeGet" THEN last.issued = 1 /\ ~last.sc[1].failed ELSE FALSE

\* C6: RangeGet(start, end, limit) returns at most limit entries, all with keys
\* in [start, end], and fewer than limit only when no further key with a value
\* is left in [start, end].
RangeGetInclusive ==
    RangeGetServed
        => /\ last.err = "nil"
           /\ Cardinality(DOMAIN last.m) <= (IF last.limit > 0 THEN last.limit ELSE 0)
           /\ DOMAIN last.m \subseteq last.start..last.end
           /\ Cardinality(DOMAIN last.m) < last.limit
                => {k \in last.start..last.end : store[k] # {}} \subseteq DOMAIN last.m

\* C7: the cursor RangeGet opens is closed exactly once before RangeGet
\* returns, on every way out; a RangeGet that panics on a released snapshot
\* has opened none.
CursorClosedOnReturn ==
    last.op = "RangeGet"
        => IF last.issued = 0
           THEN last.sc = Nil
           ELSE /\ last.sc[1].closed
                /\ last.sc[1].closes = 1

\* RangeGet left its loop at the first nil row, before the limit.
CursorClosedWitness ==
    /\ last.op = "RangeGet"
    /\ last.issued = 1
    /\ last.exit = "break"
    /\ last.limit > Cardinality(DOMAIN last.m)
    /\ last.sc[1].closes = 1

\* The row number n of the cursor sc, nil past the last one.
CursorRow(sc, n) ==
    IF n > Cardinality(ScanKeys(sc))
    THEN Nil
    ELSE <<ResultRow(NthKey(ScanKeys(sc), n),
                     SetMax(InRange(NthKey(ScanKeys(sc), n), sc.from, sc.to)))>>

\* C8: a new iterator has advanced exactly once: it is valid at once iff the
\* cursor has a first row, and Key and Value are that row's; after k calls of
\* Next the current row is row k + 1 of the cursor (a cursor whose fetch failed
\* delivers no row from then on).
IteratorPreAdvanced ==
    (IF it = Nil THEN FALSE ELSE it[1].ThemisScanner # Nil)
        => /\ scanner[1].calls = it[1].nexts + 1
           /\ it[1].rs = IF scanner[1].failed
                         THEN Nil
                         ELSE CursorRow(scanner[1], it[1].nexts + 1)
           /\ Valid(it[1], scanner[1]) = IF it[1].rs = Nil THEN "false" ELSE "true"
           /\ it[1].rs # Nil
                => /\ Key(it[1]) = [k |-> it[1].rs[1].Row, err |-> "nil"]
                   /\ Value(it[1]) = [v |-> ValueOf(it[1].rs[1].Row,
                                                   SetMax(InRange(it[1].rs[1].Row,
                                                                  scanner[1].from,
                                                                  scanner[1].to))),
                                      err |-> "nil"]

\* After one Next the iterator stands on the second row of its cursor.
SecondRowWitness ==
    /\ it # Nil
    /\ it[1].ThemisScanner # Nil
    /\ it[1].nexts = 1
    /\ ~scanner[1].failed
    /\ Valid(it[1], scanner[1]) = "true"
    /\ Key(it[1]).k = NthKey(ScanKeys(scanner[1]), 2)

\* C9: over any sequence of Close() calls the cursor is closed exactly once:
\* the first Close closes it and clears the cursor reference and the current
\* row, a later Close changes nothing and does not panic, and after a Close
\* Valid() is false; Valid() holds iff there is a current row with at least
\* one column and the cursor is not closed.
ClosedExactlyOnce ==
    it # Nil
        => /\ scanner[1].closes <= 1
           /\ (it[1].ThemisScanner = Nil) <=> (scanner[1].closes = 1)
           /\ scanner[1].closed <=> (scanner[1].closes = 1)
           /\ it[1].ThemisScanner = Nil
                => /\ it[1].rs = Nil
                   /\ Valid(it[1], scanner[1]) = "false"
           /\ last.op = "Close" => (last.err = "nil" /\ it[1].ThemisScanner = Nil)
           /\ Valid(it[1], scanner[1]) # "panic"
           /\ (Valid(it[1], scanner[1]) = "true")
                <=> (IF it[1].rs = Nil
                     THEN FALSE
                     ELSE LenColumns(it[1].rs[1]) > 0 /\ ~scanner[1].closed)

\* A Close of an iterator that was closed before.
SecondCloseWitness ==
    /\ it # Nil
    /\ last.op = "Close"
    /\ ~last.held
    /\ scanner[1].closes = 1
    /\ Valid(it[1], scanner[1]) = "false"

\* C10: a failure of the engine during a read is returned to the caller: Get,
\* MvccGet, BatchGet and RangeGet issue the failed request once and return an
\* error and no value or mapping.
EngineFailureSurfaced ==
    /\ (last.op \in {"Get", "MvccGet"} /\ last.issued = 1)
          => (last.resp.err # "nil" => (last.err = "EngineError" /\ last.v = Nil))
    /\ (last.op = "BatchGet" /\ last.issued = 1)
          => (last.resp.err # "nil" => (last.err = "EngineError" /\ last.m = EmptyMap))
    /\ (last.op = "RangeGet" /\ last.issued = 1)
          => (last.sc[1].failed => (last.err = "EngineError" /\ last.m = EmptyMap))

====
